---- MODULE Spec2Model ----
(***************************************************************************)
(* Circuit gadgets of csgo: the selector (Map / Mux) and the bounded       *)
(* comparator, over a prime field of order P.                              *)
(*                                                                         *)
(* A session builds a circuit (gadget calls append constraints to the      *)
(* shared constraint system and allocate hint outputs), then generates the *)
(* witness by running the registered hint functions on concrete values.    *)
(* The circuit's input variables carry the concrete values the prover      *)
(* assigns to them; hint outputs are the only free wires.                  *)
(***************************************************************************)
EXTENDS Integers, Sequences, FiniteSets

VARIABLES
    P,        \* order of the underlying field (runtime.FieldOrder())
    pc,       \* "start" | "ready" | "called" | "solved" | "panic"
    bc,       \* the BoundedComparator struct: [absDiffUppBitLen]
    ctor,     \* arguments NewBoundedComparator was called with
    cs,       \* the shared constraint system: sequence of constraints
    nHints,   \* number of hint output wires allocated by NewHint
    hints,    \* deferred hint computations, in allocation order
    call,     \* the gadget call made in this session
    ret,      \* what the call returned
    wit,      \* values of the hint wires produced by running the hints
    sats      \* all assignments of the hint wires satisfying cs

vars == <<P, pc, bc, ctor, cs, nHints, hints, call, ret, wit, sats>>

----------------------------------------------------------------------------
(* Bounds of the model *)

\* longest keys / values / inputs list passed to Map and Mux
MaxLen == 3
\* keys are drawn from 0..MaxKey; query keys also from P-1, which is no key
MaxKey == 2
\* the inputs of Mux are drawn from 0..MaxInput
MaxInput == 1
\* constraints the surrounding circuit emitted before the gadget call
MaxPrior == 1
\* selector sessions run over the SelFieldIndex-th prime
SelFieldIndex == 3
\* comparator sessions run over the first NumCmpFields primes
NumCmpFields == 6

FieldPrimes == <<2, 3, 5, 7, 11, 13, 17, 19, 23>>

SelFieldOrders == {FieldPrimes[SelFieldIndex]}
CmpFieldOrders == {FieldPrimes[i] : i \in 1..NumCmpFields}

----------------------------------------------------------------------------
(* Field elements and symbolic variables (frontend.Variable) *)

\* an input variable or constant, carrying its concrete value
Const(v) == [t |-> "c", v |-> v % P]
\* the i-th hint output wire
Wire(i) == [t |-> "w", i |-> i]

IsConst(e) == e.t = "c"

\* api.Add, api.Sub, api.Mul: field arithmetic on variables
Add(x, y) ==
    IF IsConst(x) /\ IsConst(y) THEN Const(x.v + y.v)
    ELSE [t |-> "add", x |-> x, y |-> y]

Sub(x, y) ==
    IF IsConst(x) /\ IsConst(y) THEN Const(x.v - y.v)
    ELSE [t |-> "sub", x |-> x, y |-> y]

Mul(x, y) ==
    IF IsConst(x) /\ IsConst(y) THEN Const(x.v * y.v)
    ELSE [t |-> "mul", x |-> x, y |-> y]

\* value of an expression under an assignment h of the hint wires
RECURSIVE Eval(_, _)
Eval(e, h) ==
    CASE e.t = "c"   -> e.v
      [] e.t = "w"   -> h[e.i]
      [] e.t = "add" -> (Eval(e.x, h) + Eval(e.y, h)) % P
      [] e.t = "sub" -> (Eval(e.x, h) - Eval(e.y, h)) % P
      [] e.t = "mul" -> (Eval(e.x, h) * Eval(e.y, h)) % P

----------------------------------------------------------------------------
(* The constraint system under construction: [cs, nHints, hints] *)

\* api.AssertIsEqual(l, r)
EqC(l, r) == [k |-> "eq", l |-> l, r |-> r, n |-> 0]
\* bits.ToBinary(x, WithNbDigits(n))
BitsC(x, n) == [k |-> "bits", l |-> x, r |-> Const(0), n |-> n]

AssertIsEqual(st, l, r) == [st EXCEPT !.cs = Append(@, EqC(l, r))]

\* api.Compiler().NewHint(fn, nbOutputs, inputs...): allocates nbOutputs fresh
\* wires and defers fn to witness generation
NewHint(st, fn, nbOutputs, inputs) ==
    [st EXCEPT !.nHints = @ + nbOutputs,
               !.hints = Append(@, [fn |-> fn, inputs |-> inputs,
                                    first |-> st.nHints + 1, n |-> nbOutputs])]

HintOutputs(before, after) ==
    [i \in 1..(after.nHints - before.nHints) |-> Wire(before.nHints + i)]

\* api.Api.Select(cond, x, y): cond must be boolean; cond ? x : y
Select(st, cond, x, y) ==
    [st  |-> AssertIsEqual(st, Mul(cond, Sub(cond, Const(1))), Const(0)),
     out |-> Add(Mul(cond, Sub(x, y)), y)]

----------------------------------------------------------------------------
(* selector: multiplexer.go *)

\* the loop of generateSelector comparing sel with the index for Map as well
RECURSIVE SelectorLoop_IndexOnly(_, _, _, _, _, _, _, _)
SelectorLoop_IndexOnly(st, wantMux, sel, keys, values, indicators, i, acc) ==
    IF i >= Len(indicators) THEN [st |-> st, acc |-> acc]
    ELSE LET ki == Const(i)
             st1 == AssertIsEqual(st, Mul(indicators[i + 1], Sub(sel, ki)), Const(0))
             acc1 == [indicatorsSum |-> Add(acc.indicatorsSum, indicators[i + 1]),
                      out |-> Add(acc.out, Mul(indicators[i + 1], values[i + 1]))]
         IN  SelectorLoop_IndexOnly(st1, wantMux, sel, keys, values, indicators, i + 1, acc1)

\* the loop of generateSelector, iterations i..len(indicators)-1 (0-based)
RECURSIVE SelectorLoop(_, _, _, _, _, _, _, _)
SelectorLoop(st, wantMux, sel, keys, values, indicators, i, acc) ==
    IF i >= Len(indicators) THEN [st |-> st, acc |-> acc]
    ELSE LET ki == IF wantMux THEN Const(i) ELSE keys[i + 1]
             st1 == AssertIsEqual(st, Mul(indicators[i + 1], Sub(sel, ki)), Const(0))
             acc1 == [indicatorsSum |-> Add(acc.indicatorsSum, indicators[i + 1]),
                      out |-> Add(acc.out, Mul(indicators[i + 1], values[i + 1]))]
         IN  SelectorLoop(st1, wantMux, sel, keys, values, indicators, i + 1, acc1)

\* generateSelector without the final indicatorsSum === 1
generateSelector_NoSum(st, wantMux, sel, keys, values) ==
    IF wantMux /\ Len(values) = 2
    THEN LET s == Select(st, sel, values[2], values[1])
         IN  [st |-> s.st, out |-> s.out, indicators |-> <<>>, nil |-> TRUE]
    ELSE LET st1 == IF wantMux
                    THEN NewHint(st, "muxIndicators", Len(values), <<sel>>)
                    ELSE NewHint(st, "mapIndicators", Len(keys), Append(keys, sel))
             indicators == HintOutputs(st, st1)
             lp == SelectorLoop(st1, wantMux, sel, keys, values, indicators, 0,
                                [indicatorsSum |-> Const(0), out |-> Const(0)])
         IN  [st |-> lp.st, out |-> lp.acc.out, indicators |-> indicators,
              nil |-> Len(indicators) = 0]

generateSelector(st, wantMux, sel, keys, values) ==
    IF wantMux /\ Len(values) = 2
    THEN LET s == Select(st, sel, values[2], values[1])
         IN  [st |-> s.st, out |-> s.out, indicators |-> <<>>, nil |-> TRUE]
    ELSE LET st1 == IF wantMux
                    THEN NewHint(st, "muxIndicators", Len(values), <<sel>>)
                    ELSE NewHint(st, "mapIndicators", Len(keys), Append(keys, sel))
             indicators == HintOutputs(st, st1)
             lp == SelectorLoop(st1, wantMux, sel, keys, values, indicators, 0,
                                [indicatorsSum |-> Const(0), out |-> Const(0)])
             st2 == AssertIsEqual(lp.st, lp.acc.indicatorsSum, Const(1))
         IN  [st |-> st2, out |-> lp.acc.out, indicators |-> indicators,
              nil |-> Len(indicators) = 0]

\* muxIndicators counting its results from 1
muxIndicators_OneBased(inputs, n) ==
    [i \in 1..n |-> IF inputs[1] = i THEN 1 ELSE 0]

\* hint muxIndicators: results[i] = (sel == i) ? 1 : 0, i 0-based
muxIndicators(inputs, n) ==
    [i \in 1..n |-> IF inputs[1] = i - 1 THEN 1 ELSE 0]

\* mapIndicators reading the key from the first input instead of the last
mapIndicators_KeyFirst(inputs, n) ==
    [i \in 1..n |-> IF inputs[1] = inputs[i] THEN 1 ELSE 0]

\* hint mapIndicators: results[i] = (key == inputs[i]) ? 1 : 0
mapIndicators(inputs, n) ==
    [i \in 1..n |-> IF inputs[Len(inputs)] = inputs[i] THEN 1 ELSE 0]

----------------------------------------------------------------------------
(* selector: exported relations *)

\* Map rejecting only the case generateSelector does not support
Map_RejectsLongerKeys(st, queryKey, keys, values) ==
    IF Len(keys) > Len(values)
    THEN [panic |-> TRUE, st |-> st, out |-> Const(0), indicators |-> <<>>, nil |-> TRUE]
    ELSE LET r == generateSelector(st, FALSE, queryKey, keys, values)
         IN  [panic |-> FALSE, st |-> r.st, out |-> r.out,
              indicators |-> r.indicators, nil |-> r.nil]

\* Map: panics when len(keys) != len(values), before anything is emitted
Map(st, queryKey, keys, values) ==
    IF Len(keys) # Len(values)
    THEN [panic |-> TRUE, st |-> st, out |-> Const(0), indicators |-> <<>>, nil |-> TRUE]
    ELSE LET r == generateSelector(st, FALSE, queryKey, keys, values)
         IN  [panic |-> FALSE, st |-> r.st, out |-> r.out,
              indicators |-> r.indicators, nil |-> r.nil]

\* Mux: keys are nil
Mux(st, sel, inputs) == generateSelector(st, TRUE, sel, <<>>, inputs)

----------------------------------------------------------------------------
(* cmp: bounded comparator *)

Abs(x) == IF x < 0 THEN -x ELSE x

\* big.Int.BitLen: length of the absolute value in bits, 0 for 0
RECURSIVE BitLenNat(_)
BitLenNat(x) == IF x = 0 THEN 0 ELSE 1 + BitLenNat(x \div 2)
BitLen(x) == BitLenNat(Abs(x))

RECURSIVE Pow2(_)
Pow2(n) == IF n = 0 THEN 1 ELSE 2 * Pow2(n - 1)

\* big.Int.Cmp
Cmp(x, y) == IF x < y THEN -1 ELSE IF x = y THEN 0 ELSE 1

\* NewBoundedComparator comparing the bit lengths with < instead of <=
NewBoundedComparatorResult_Strict(order, absDiffUpp, allowNonDeterminism) ==
    LET smallestNeg == order - absDiffUpp - 1
        absDiffUppBitLen == BitLen(absDiffUpp)
        temp == Pow2(absDiffUppBitLen + 1) + 1
    IN  IF Cmp(absDiffUpp, 0) # 1 \/ Cmp(absDiffUpp, order) # -1
        THEN [panic |-> TRUE, absDiffUppBitLen |-> 0]
        ELSE IF BitLen(smallestNeg) < absDiffUppBitLen
        THEN [panic |-> TRUE, absDiffUppBitLen |-> 0]
        ELSE IF ~allowNonDeterminism /\ Cmp(order, temp) = -1
        THEN [panic |-> TRUE, absDiffUppBitLen |-> 0]
        ELSE [panic |-> FALSE, absDiffUppBitLen |-> absDiffUppBitLen]

\* NewBoundedComparator without the check that allowNonDeterminism guards
NewBoundedComparatorResult_NoDetCheck(order, absDiffUpp, allowNonDeterminism) ==
    LET smallestNeg == order - absDiffUpp - 1
        absDiffUppBitLen == BitLen(absDiffUpp)
    IN  IF Cmp(absDiffUpp, 0) # 1 \/ Cmp(absDiffUpp, order) # -1
        THEN [panic |-> TRUE, absDiffUppBitLen |-> 0]
        ELSE IF BitLen(smallestNeg) <= absDiffUppBitLen
        THEN [panic |-> TRUE, absDiffUppBitLen |-> 0]
        ELSE [panic |-> FALSE, absDiffUppBitLen |-> absDiffUppBitLen]

\* NewBoundedComparator: the checks and the struct it returns
NewBoundedComparatorResult(order, absDiffUpp, allowNonDeterminism) ==
    LET smallestNeg == order - absDiffUpp - 1
        absDiffUppBitLen == BitLen(absDiffUpp)
        temp == Pow2(absDiffUppBitLen + 1) + 1
    IN  IF Cmp(absDiffUpp, 0) # 1 \/ Cmp(absDiffUpp, order) # -1
        THEN [panic |-> TRUE, absDiffUppBitLen |-> 0]
        ELSE IF BitLen(smallestNeg) <= absDiffUppBitLen
        THEN [panic |-> TRUE, absDiffUppBitLen |-> 0]
        ELSE IF ~allowNonDeterminism /\ Cmp(order, temp) = -1
        THEN [panic |-> TRUE, absDiffUppBitLen |-> 0]
        ELSE [panic |-> FALSE, absDiffUppBitLen |-> absDiffUppBitLen]

\* convert.AssertBitLen(bitLen, x): x decomposes into bitLen binary digits
AssertBitLen(st, bitLen, x) == [st EXCEPT !.cs = Append(@, BitsC(x, bitLen))]

\* assertIsNonNegative decomposing into one digit more
assertIsNonNegative_OneMoreBit(st, a) == AssertBitLen(st, bc.absDiffUppBitLen + 1, a)

assertIsNonNegative(st, a) == AssertBitLen(st, bc.absDiffUppBitLen, a)

\* AssertIsLessEq with the operands of the subtraction exchanged
AssertIsLessEq_Swapped(st, a, b) == assertIsNonNegative(st, Sub(a, b))

AssertIsLessEq(st, a, b) == assertIsNonNegative(st, Sub(b, a))

AssertIsLess(st, a, b) == AssertIsLessEq(st, a, Sub(b, Const(1)))

IsLess(st, a, b) ==
    LET st1 == NewHint(st, "isLessOutputHint", 1, <<a, b>>)
        res == HintOutputs(st, st1)
        m == Mux(st1, res[1], <<Sub(a, b), Sub(Sub(b, a), Const(1))>>)
    IN  [st |-> assertIsNonNegative(m.st, m.out), out |-> res[1]]

IsLessEq(st, a, b) == IsLess(st, a, Add(b, Const(1)))

Min(st, a, b) ==
    LET st1 == NewHint(st, "minOutputHint", 1, <<a, b>>)
        res == HintOutputs(st, st1)
        min == res[1]
        aDiff == Sub(a, min)
        bDiff == Sub(b, min)
        st2 == AssertIsEqual(st1, Mul(aDiff, bDiff), Const(0))
    IN  [st |-> assertIsNonNegative(st2, Add(aDiff, bDiff)), out |-> min]

\* cmpInField comparing the raw integers, without the sign correction
cmpInField_Raw(a, b, order) == Cmp(a, b)

\* cmpInField: compares a and b in the field of the given order
cmpInField(a, b, order) ==
    LET biggestPositiveNum == order \div 2
    IN  IF Cmp(a, biggestPositiveNum) * Cmp(b, biggestPositiveNum) = -1
        THEN -Cmp(a, b)
        ELSE Cmp(a, b)

minOutputHint(fieldOrder, inputs) ==
    IF cmpInField(inputs[1], inputs[2], fieldOrder) = -1
    THEN <<inputs[1]>> ELSE <<inputs[2]>>

isLessOutputHint(fieldOrder, inputs) ==
    IF cmpInField(inputs[1], inputs[2], fieldOrder) = -1
    THEN <<1>> ELSE <<0>>

----------------------------------------------------------------------------
(* Witness generation and satisfaction *)

\* the hint registry: runs the registered function on concrete inputs
RunHint(hn, inputs) ==
    CASE hn.fn = "muxIndicators"    -> muxIndicators(inputs, hn.n)
      [] hn.fn = "mapIndicators"    -> mapIndicators(inputs, hn.n)
      [] hn.fn = "isLessOutputHint" -> isLessOutputHint(P, inputs)
      [] hn.fn = "minOutputHint"    -> minOutputHint(P, inputs)

\* runs hints k..Len(hs) in allocation order, filling their wires in h
RECURSIVE RunHints(_, _, _)
RunHints(hs, k, h) ==
    IF k > Len(hs) THEN h
    ELSE LET hn == hs[k]
             inputs == [j \in 1..Len(hn.inputs) |-> Eval(hn.inputs[j], h)]
             outs == RunHint(hn, inputs)
             h1 == [w \in DOMAIN h |->
                      IF w >= hn.first /\ w < hn.first + hn.n
                      THEN outs[w - hn.first + 1] ELSE h[w]]
         IN  RunHints(hs, k + 1, h1)

\* value of the binary digits b[0..n-1]
RECURSIVE BinValue(_, _)
BinValue(b, n) == IF n = 0 THEN 0 ELSE b[n - 1] * Pow2(n - 1) + BinValue(b, n - 1)

\* bits.ToBinary with n digits has a solution for the value v
FitsBits(v, n) == \E b \in [0..(n - 1) -> {0, 1}] : BinValue(b, n) % P = v

Holds(c, h) ==
    IF c.k = "eq" THEN Eval(c.l, h) = Eval(c.r, h)
    ELSE FitsBits(Eval(c.l, h), c.n)

Satisfies(h) == \A i \in 1..Len(cs) : Holds(cs[i], h)

MaxOf(x, y) == IF x >= y THEN x ELSE y

\* highest hint wire an expression reads, 0 when it reads none
RECURSIVE MaxWire(_)
MaxWire(e) ==
    CASE e.t = "c" -> 0
      [] e.t = "w" -> e.i
      [] OTHER     -> MaxOf(MaxWire(e.x), MaxWire(e.y))

\* the wire at which each constraint of the system can be decided
Levels == [i \in 1..Len(cs) |-> MaxOf(MaxWire(cs[i].l), MaxWire(cs[i].r))]

\* all assignments of wires k..nHints extending h in which every constraint
\* whose highest wire is k or later holds (each is checked at its last wire)
RECURSIVE Extend(_, _, _)
Extend(k, h, lv) ==
    IF k > nHints THEN {h}
    ELSE UNION {Extend(k + 1, g, lv) :
                  g \in {f \in {[h EXCEPT ![k] = v] : v \in 0..(P - 1)} :
                           \A i \in 1..Len(cs) : lv[i] = k => Holds(cs[i], f)}}

\* the satisfying assignments of the hint wires: {h : Satisfies(h)}
Solutions ==
    LET h0 == [i \in 1..nHints |-> 0]
        lv == Levels
    IN  IF \A i \in 1..Len(cs) : lv[i] = 0 => Holds(cs[i], h0)
        THEN Extend(1, h0, lv) ELSE {}

----------------------------------------------------------------------------
(* Sessions *)

FieldElems == 0..(P - 1)

Seqs(S, n) == UNION {[1..k -> S] : k \in 0..n}

KeyDomain == {k \in FieldElems : k <= MaxKey \/ k = P - 1}
\* the values of Map: two field elements tell the candidates apart
ValDomain == {0, 1}
InputDomain == {v \in FieldElems : v <= MaxInput}

Consts(s) == [i \in 1..Len(s) |-> Const(s[i])]

NoCall == [op |-> "none", sel |-> 0, keys |-> <<>>, values |-> <<>>, a |-> 0, b |-> 0]
NoRet == [out |-> [t |-> "c", v |-> 0], indicators |-> <<>>, nil |-> TRUE]

\* the builder state the gadgets append to
St == [cs |-> cs, nHints |-> nHints, hints |-> hints]

\* constraints the surrounding circuit emitted before the gadget is called
PriorCircuit == [i \in 1..MaxPrior |-> EqC(Const(i), Const(i))]

InitCommon ==
    /\ bc = [absDiffUppBitLen |-> 0]
    /\ ctor = [absDiffUpp |-> 0, allowNonDeterminism |-> FALSE]
    /\ cs = PriorCircuit
    /\ nHints = 0
    /\ hints = <<>>
    /\ call = NoCall
    /\ ret = NoRet
    /\ wit = <<>>
    /\ sats = {}

\* a circuit that uses the selector package
InitSel ==
    /\ P \in SelFieldOrders
    /\ pc = "ready"
    /\ InitCommon

\* a circuit that uses the cmp package
InitCmp ==
    /\ P \in CmpFieldOrders
    /\ pc = "start"
    /\ InitCommon

Emit(r) ==
    /\ cs' = r.st.cs
    /\ nHints' = r.st.nHints
    /\ hints' = r.st.hints

MapCall(queryKey, keys, values) ==
    /\ pc = "ready"
    /\ LET r == Map(St, Const(queryKey), Consts(keys), Consts(values))
       IN  /\ Emit(r)
           /\ pc' = IF r.panic THEN "panic" ELSE "called"
           /\ ret' = [out |-> r.out, indicators |-> r.indicators, nil |-> r.nil]
    /\ call' = [NoCall EXCEPT !.op = "Map", !.sel = queryKey,
                              !.keys = keys, !.values = values]
    /\ UNCHANGED <<P, bc, ctor, wit, sats>>

MuxCall(sel, inputs) ==
    /\ pc = "ready"
    /\ Len(inputs) < P
    /\ LET r == Mux(St, Const(sel), Consts(inputs))
       IN  /\ Emit(r)
           /\ ret' = [out |-> r.out, indicators |-> r.indicators, nil |-> r.nil]
    /\ pc' = "called"
    /\ call' = [NoCall EXCEPT !.op = "Mux", !.sel = sel, !.values = inputs]
    /\ UNCHANGED <<P, bc, ctor, wit, sats>>

NewBoundedComparator(absDiffUpp, allowNonDeterminism) ==
    /\ pc = "start"
    /\ ctor' = [absDiffUpp |-> absDiffUpp, allowNonDeterminism |-> allowNonDeterminism]
    /\ LET r == NewBoundedComparatorResult(P, absDiffUpp, allowNonDeterminism)
       IN  IF r.panic
           THEN pc' = "panic" /\ UNCHANGED bc
           ELSE pc' = "ready" /\ bc' = [absDiffUppBitLen |-> r.absDiffUppBitLen]
    /\ UNCHANGED <<P, cs, nHints, hints, call, ret, wit, sats>>

CmpCalled(op, a, b) ==
    /\ pc' = "called"
    /\ call' = [NoCall EXCEPT !.op = op, !.a = a, !.b = b]
    /\ UNCHANGED <<P, bc, ctor, wit, sats>>

AssertIsLessEqCall(a, b) ==
    /\ pc = "ready"
    /\ Emit([st |-> AssertIsLessEq(St, Const(a), Const(b))])
    /\ ret' = NoRet
    /\ CmpCalled("AssertIsLessEq", a, b)

AssertIsLessCall(a, b) ==
    /\ pc = "ready"
    /\ Emit([st |-> AssertIsLess(St, Const(a), Const(b))])
    /\ ret' = NoRet
    /\ CmpCalled("AssertIsLess", a, b)

IsLessCall(a, b) ==
    /\ pc = "ready"
    /\ LET r == IsLess(St, Const(a), Const(b))
       IN  Emit(r) /\ ret' = [NoRet EXCEPT !.out = r.out]
    /\ CmpCalled("IsLess", a, b)

IsLessEqCall(a, b) ==
    /\ pc = "ready"
    /\ LET r == IsLessEq(St, Const(a), Const(b))
       IN  Emit(r) /\ ret' = [NoRet EXCEPT !.out = r.out]
    /\ CmpCalled("IsLessEq", a, b)

MinCall(a, b) ==
    /\ pc = "ready"
    /\ LET r == Min(St, Const(a), Const(b))
       IN  Emit(r) /\ ret' = [NoRet EXCEPT !.out = r.out]
    /\ CmpCalled("Min", a, b)

\* witness generation: the hints run, and the prover's choices are all the
\* assignments of the hint wires that satisfy the constraint system
Solve ==
    /\ pc = "called"
    /\ pc' = "solved"
    /\ wit' = RunHints(hints, 1, [i \in 1..nHints |-> 0])
    /\ sats' = Solutions
    /\ UNCHANGED <<P, bc, ctor, cs, nHints, hints, call, ret>>

\* a session makes its calls while the circuit is being built (pc = "ready");
\* the guard stands before the quantifiers so that it is decided first
NextSel ==
    \/ /\ pc = "ready"
       /\ \E q \in KeyDomain, keys \in Seqs(KeyDomain \ {P - 1}, MaxLen),
             values \in Seqs(ValDomain, MaxLen) : MapCall(q, keys, values)
    \/ /\ pc = "ready"
       /\ \E sel \in FieldElems, inputs \in Seqs(InputDomain, MaxLen) : MuxCall(sel, inputs)
    \/ Solve

NextCmp ==
    \/ /\ pc = "start"
       /\ \E d \in (-1)..(P + 1), nd \in BOOLEAN : NewBoundedComparator(d, nd)
    \/ /\ pc = "ready"
       /\ \E a, b \in FieldElems : AssertIsLessEqCall(a, b)
    \/ /\ pc = "ready"
       /\ \E a, b \in FieldElems : AssertIsLessCall(a, b)
    \/ /\ pc = "ready"
       /\ \E a, b \in FieldElems : IsLessCall(a, b)
    \/ /\ pc = "ready"
       /\ \E a, b \in FieldElems : IsLessEqCall(a, b)
    \/ /\ pc = "ready"
       /\ \E a, b \in FieldElems : MinCall(a, b)
    \/ Solve

SpecSel == InitSel /\ [][NextSel]_vars
SpecCmp == InitCmp /\ [][NextCmp]_vars

----------------------------------------------------------------------------
(* Properties of the selector, checked under SpecSel *)

Solved(op) == pc = "solved" /\ call.op = op

\* the value of a returned variable in the assignment h
Value(e, h) == Eval(e, h)

OneHot(n, k) == [j \in 1..n |-> IF j = k THEN 1 ELSE 0]

IndicatorValues(h) == [j \in 1..Len(ret.indicators) |-> Value(ret.indicators[j], h)]

\* C1: Mux with n >= 2 inputs and sel = i in [0, n): the witness the
\* muxIndicators hint produces satisfies the constraints, and in every
\* satisfying assignment out = inputs[i]; for n >= 3 the indicators are one-hot
\* at i; for n = 2 the result is the single Select, with no indicators and no
\* hint.
C1_MuxSelects ==
    (Solved("Mux") /\ Len(call.values) >= 2 /\ call.sel < Len(call.values)) =>
        LET n == Len(call.values)
        IN  /\ wit \in sats
            /\ \A h \in sats : Value(ret.out, h) = call.values[call.sel + 1]
            /\ n >= 3 =>
                  /\ Len(ret.indicators) = n /\ ~ret.nil
                  /\ \A h \in sats : IndicatorValues(h) = OneHot(n, call.sel + 1)
            /\ n = 2 =>
                  /\ ret.nil /\ ret.indicators = <<>>
                  /\ nHints = 0 /\ hints = <<>>
                  /\ Len(cs) = MaxPrior + 1

C1_Witness ==
    /\ Solved("Mux")
    /\ call.sel = 1 /\ call.values = <<0, 1, 0>>
    /\ wit = <<0, 1, 0>> /\ sats = {wit}
    /\ Value(ret.out, wit) = 1

\* C2: Map with pairwise-distinct keys, queried at keys[k]: the witness the
\* mapIndicators hint produces satisfies the constraints, and in every
\* satisfying assignment out = values[k] and the indicators are one-hot at k.
DistinctKeys == \A i, j \in 1..Len(call.keys) : call.keys[i] = call.keys[j] => i = j

C2_MapDistinctKeys ==
    (Solved("Map") /\ DistinctKeys) =>
        \A k \in 1..Len(call.keys) :
            call.sel = call.keys[k] =>
                /\ wit \in sats
                /\ Len(ret.indicators) = Len(call.keys)
                /\ \A h \in sats :
                      /\ Value(ret.out, h) = call.values[k]
                      /\ IndicatorValues(h) = OneHot(Len(call.keys), k)

C2_Witness ==
    /\ Solved("Map")
    /\ call.keys = <<2, 0, 1>> /\ call.values = <<0, 1, 0>> /\ call.sel = 0
    /\ wit = <<0, 1, 0>> /\ sats = {wit}
    /\ Value(ret.out, wit) = 1

\* C7: Map called with len(keys) # len(values) panics, and the call allocates
\* no hint and emits no constraint: the constraint system is as before it.
C7_MapLengthMismatchPanics ==
    [][(pc = "ready" /\ call'.op = "Map" /\ Len(call'.keys) # Len(call'.values)) =>
         (pc' = "panic" /\ cs' = cs /\ nHints' = nHints /\ hints' = hints)]_vars

C7_Witness ==
    /\ pc = "panic" /\ call.op = "Map"
    /\ Len(call.keys) < Len(call.values)
    /\ cs = PriorCircuit /\ nHints = 0 /\ hints = <<>>

\* C8: when no candidate matches (no key equals queryKey, the empty key list
\* included; sel outside [0, n-1] for Mux, for every n), no assignment
\* satisfies the constraints.
NoCandidate ==
    \/ call.op = "Map" /\ \A i \in 1..Len(call.keys) : call.keys[i] # call.sel
    \/ call.op = "Mux" /\ call.sel >= Len(call.values)

C8_NoMatchUnsatisfiable ==
    (pc = "solved" /\ NoCandidate) => sats = {}

C8_Witness ==
    /\ Solved("Mux") /\ Len(call.values) = 2 /\ call.sel = 2 /\ sats = {}

----------------------------------------------------------------------------
(* Properties of the bounded comparator, checked under SpecCmp *)

\* canonical signed representative of a field element
Signed(v) == IF 2 * v <= P - 1 THEN v ELSE v - P

sa == Signed(call.a)
sb == Signed(call.b)
AbsDiff == Abs(sa - sb)

\* the bit length of x >= 0: the least n with x < 2^n
BitLength(x) == CHOOSE n \in 0..x : x < Pow2(n) /\ (n = 0 \/ x >= Pow2(n - 1))

Bit(cond) == IF cond THEN 1 ELSE 0

\* |sa - sb| <= absDiffUpp
InBound == AbsDiff <= ctor.absDiffUpp
\* absDiffUpp < |sa - sb| < P - 2^absDiffUppBitLen
Tolerated == ctor.absDiffUpp < AbsDiff /\ AbsDiff < P - Pow2(bc.absDiffUppBitLen)
\* |sa - sb| >= P - 2^absDiffUppBitLen
Beyond == AbsDiff >= P - Pow2(bc.absDiffUppBitLen)

\* C3: within the bound, the witness of isLessOutputHint satisfies the
\* constraints of IsLess and its bit is 1 exactly when sa < sb; the witness of
\* minOutputHint satisfies the constraints of Min and its value is the operand
\* with the smaller signed representative.
C3_InBoundIsLessMin ==
    (pc = "solved" /\ InBound) =>
        /\ call.op = "IsLess" =>
              wit \in sats /\ Value(ret.out, wit) = Bit(sa < sb)
        /\ call.op = "Min" =>
              wit \in sats /\ Value(ret.out, wit) = (IF sa <= sb THEN call.a ELSE call.b)

C3_Witness ==
    /\ Solved("IsLess") /\ P = 13 /\ ctor.absDiffUpp = 2
    /\ call.a = 5 /\ call.b = 6
    /\ wit \in sats /\ Value(ret.out, wit) = 1

\* C4: within the bound (b = (P-1)/2 included), the witness the hint produces
\* for IsLessEq(a, b) = IsLess(a, b+1) satisfies the constraints and its bit is
\* 1 exactly when sa <= sb.
C4_InBoundIsLessEq ==
    (Solved("IsLessEq") /\ InBound) =>
        wit \in sats /\ Value(ret.out, wit) = Bit(sa <= sb)

\* C5: within the bound, AssertIsLessEq(a, b) is satisfiable iff sa <= sb and
\* AssertIsLess(a, b) is satisfiable iff sa < sb.
C5_InBoundAsserts ==
    (pc = "solved" /\ InBound) =>
        /\ call.op = "AssertIsLessEq" => (sats # {} <=> sa <= sb)
        /\ call.op = "AssertIsLess" => (sats # {} <=> sa < sb)

C5_Witness ==
    /\ Solved("AssertIsLessEq") /\ P = 13 /\ ctor.absDiffUpp = 2
    /\ call.a = 5 /\ call.b = 6 /\ sats # {}

\* C6: NewBoundedComparator panics exactly when absDiffUpp <= 0, or
\* absDiffUpp >= P, or bitlength(P - absDiffUpp - 1) <= bitlength(absDiffUpp), or
\* allowNonDeterminism is false and P < 2^(bitlength(absDiffUpp)+1) + 1; otherwise
\* the comparator has absDiffUppBitLen = bitlength(absDiffUpp).
MustFail ==
    LET d == ctor.absDiffUpp
    IN  \/ d <= 0
        \/ d >= P
        \/ BitLength(P - d - 1) <= BitLength(d)
        \/ ~ctor.allowNonDeterminism /\ P < Pow2(BitLength(d) + 1) + 1

Constructed == pc # "start"
ConstructorPanicked == pc = "panic" /\ call.op = "none"

C6_ConstructorValidation ==
    Constructed =>
        /\ ConstructorPanicked <=> MustFail
        /\ ~ConstructorPanicked => bc.absDiffUppBitLen = BitLength(ctor.absDiffUpp)

C6_Witness ==
    /\ ConstructorPanicked /\ P = 7
    /\ ctor.absDiffUpp = 2 /\ ~ctor.allowNonDeterminism

\* C9: for absDiffUpp < |sa - sb| < P - 2^absDiffUppBitLen, every assignment
\* satisfying IsLess, IsLessEq or Min returns the correct result, and
\* AssertIsLessEq / AssertIsLess are satisfiable only if their relation holds;
\* and a built comparator has absDiffUpp < P - 2^absDiffUppBitLen.
C9_ToleratedSound ==
    /\ (Constructed /\ ~ConstructorPanicked) =>
          ctor.absDiffUpp < P - Pow2(bc.absDiffUppBitLen)
    /\ (pc = "solved" /\ Tolerated) =>
          /\ call.op = "IsLess" => \A h \in sats : Value(ret.out, h) = Bit(sa < sb)
          /\ call.op = "IsLessEq" => \A h \in sats : Value(ret.out, h) = Bit(sa <= sb)
          /\ call.op = "Min" =>
                \A h \in sats : Value(ret.out, h) = (IF sa <= sb THEN call.a ELSE call.b)
          /\ call.op = "AssertIsLessEq" => (sats # {} => sa <= sb)
          /\ call.op = "AssertIsLess" => (sats # {} => sa < sb)

C9_Witness ==
    /\ Solved("IsLess") /\ Tolerated /\ sats # {}
    /\ \A h \in sats : Value(ret.out, h) = 1

\* C10: with allowNonDeterminism = false, for all a, b any two assignments
\* satisfying IsLess, IsLessEq or Min return the same result; and when
\* |sa - sb| >= P - 2^absDiffUppBitLen, either nothing satisfies them or the
\* result is the reverse of the correct one.
Returning == call.op \in {"IsLess", "IsLessEq", "Min"}

Reversed(h) ==
    CASE call.op = "IsLess"   -> Value(ret.out, h) = Bit(~(sa < sb))
      [] call.op = "IsLessEq" -> Value(ret.out, h) = Bit(~(sa <= sb))
      [] call.op = "Min"      -> Value(ret.out, h) = (IF sa <= sb THEN call.b ELSE call.a)

C10_Deterministic ==
    (pc = "solved" /\ Returning /\ ~ctor.allowNonDeterminism) =>
        /\ \A g, h \in sats : Value(ret.out, g) = Value(ret.out, h)
        /\ Beyond => \A h \in sats : Reversed(h)

C10_Witness ==
    /\ Solved("Min") /\ ~ctor.allowNonDeterminism /\ Beyond
    /\ sats # {} /\ \A h \in sats : Reversed(h)

----------------------------------------------------------------------------
(* Mux with fewer than three inputs, checked under SpecSel *)

MuxReturned == call.op = "Mux" /\ pc \in {"called", "solved"}

\* C11: Mux with one or with two inputs produces no indicator vector: the
\* returned indicators are nil and no indicator hint is allocated.
C11_MuxBelowThreeNoIndicators ==
    (MuxReturned /\ Len(call.values) \in {1, 2}) =>
        /\ ret.nil /\ ret.indicators = <<>>
        /\ nHints = 0 /\ hints = <<>>

----------------------------------------------------------------------------
(* cmpInField as an order, checked under SpecCmp on the operands of the hints *)

\* the signed representative with half = P >> 1
SignedHalf(v) == IF v <= P \div 2 THEN v ELSE v - P

\* a call whose hint compares call.a with call.b
ComparesOperands == pc = "solved" /\ call.op \in {"IsLess", "Min"}

\* C12: cmpInField(a, b, P) is the signed total order: it returns -1, 0 or 1
\* as s(a) < s(b), s(a) = s(b) or s(a) > s(b), for all a, b in [0, P).
C12_CmpInFieldSignedOrder ==
    ComparesOperands =>
        cmpInField(call.a, call.b, P) = Cmp(SignedHalf(call.a), SignedHalf(call.b))

----------------------------------------------------------------------------
(* Map with duplicate matching keys, checked under SpecSel *)

Matching == {i \in 1..Len(call.keys) : call.keys[i] = call.sel}

\* sum of f[i] over the indices i <= n that are in S
RECURSIVE SumOver(_, _, _)
SumOver(f, S, n) ==
    IF n = 0 THEN 0
    ELSE SumOver(f, S, n - 1) + (IF n \in S THEN f[n] ELSE 0)

\* C13: when two or more keys equal queryKey, every satisfying assignment has
\* indicator 0 at every non-matching index, the matching indicators sum to 1
\* in the field and need not be 0 or 1, and out is the sum of indicator times
\* value over the matching indices; when the matching values differ,
\* satisfying assignments with different out exist.
C13_MapDuplicateKeys ==
    (Solved("Map") /\ Cardinality(Matching) >= 2) =>
        LET n == Len(call.keys)
            ind(h) == IndicatorValues(h)
        IN  /\ \A h \in sats :
                  /\ \A j \in (1..n) \ Matching : ind(h)[j] = 0
                  /\ SumOver(ind(h), Matching, n) % P = 1
                  /\ Value(ret.out, h) =
                        SumOver([i \in 1..n |-> ind(h)[i] * call.values[i]], Matching, n) % P
            /\ \E h \in sats : \E i \in Matching : ind(h)[i] \notin {0, 1}
            /\ (\E i, j \in Matching : call.values[i] # call.values[j]) =>
                  \E g, h \in sats : Value(ret.out, g) # Value(ret.out, h)

C13_Witness ==
    /\ Solved("Map")
    /\ call.keys = <<1, 2, 1>> /\ call.values = <<0, 1, 1>> /\ call.sel = 1
    /\ <<2, 0, P - 1>> \in sats
    /\ Value(ret.out, <<2, 0, P - 1>>) = P - 1
    /\ Value(ret.out, wit) = 1

====
